---- MODULE Spec2Model ----
(***************************************************************************)
(* Model of the Shopify order companion (main.py, config.py):              *)
(* extract_fields, the five integration adapters and process_order.        *)
(*                                                                         *)
(* Python/JSON values are tagged records: null (None), str (a sequence of  *)
(* characters), num (a rational num/den, den > 0) and dict.  A dict is a   *)
(* function over the key universe Keys whose value for a key that the      *)
(* Python dict does not hold is Absent.                                    *)
(***************************************************************************)
EXTENDS Integers, Sequences, FiniteSets, TLC

\* ----------------------------------------------------------------------
\* Bounds
\* ----------------------------------------------------------------------
\* Number of orders one process handles (1 for the CLI, more for the webhook).
MaxRuns == 2

\* ----------------------------------------------------------------------
\* Values
\* ----------------------------------------------------------------------
Keys ==
  { "customer", "shipping_address", "current_total_price", "order_number", "id",
    "order_status_url", "currency", "processed_at",
    "first_name", "last_name", "email", "default_address", "phone",
    "zip", "country", "address1", "city", "province" }

Absent == [t |-> "absent"]
Null == [t |-> "null"]
Str(chars) == [t |-> "str", s |-> chars]
Num(n, d) == [t |-> "num", num |-> n, den |-> d]
Dict(f) == [t |-> "dict", d |-> [k \in Keys |-> IF k \in DOMAIN f THEN f[k] ELSE Absent]]
EmptyDict == [t |-> "dict", d |-> [k \in Keys |-> Absent]]

\* Python truth value of a value.
Truthy(v) ==
  CASE v.t = "str" -> Len(v.s) > 0
    [] v.t = "num" -> v.num # 0
    [] v.t = "dict" -> \E k \in Keys : v.d[k].t # "absent"
    [] OTHER -> FALSE

\* Python `a or b`.
PyOr(a, b) == IF Truthy(a) THEN a ELSE b

\* dict.get(k, default); only called on a dict.
GetDefault(dict, k, default) == IF dict.d[k].t = "absent" THEN default ELSE dict.d[k]

\* dict.get(k): the default is None.
Get(dict, k) == GetDefault(dict, k, Null)

\* ----------------------------------------------------------------------
\* float(): numeric parse of a string of sign, digits and "."
\* ----------------------------------------------------------------------
Digits == {"0", "1", "2", "3", "4", "5", "6", "7", "8", "9"}

DigitValue(c) ==
  CASE c = "0" -> 0 [] c = "1" -> 1 [] c = "2" -> 2 [] c = "3" -> 3 [] c = "4" -> 4
    [] c = "5" -> 5 [] c = "6" -> 6 [] c = "7" -> 7 [] c = "8" -> 8 [] c = "9" -> 9

RECURSIVE DigitsValue(_)
DigitsValue(s) ==
  IF Len(s) = 0 THEN 0
  ELSE 10 * DigitsValue(SubSeq(s, 1, Len(s) - 1)) + DigitValue(s[Len(s)])

RECURSIVE Pow10(_)
Pow10(n) == IF n = 0 THEN 1 ELSE 10 * Pow10(n - 1)

\* float(text): [ok |-> FALSE] stands for ValueError.
ParseFloat(text) ==
  LET signed == Len(text) > 0 /\ text[1] \in {"-", "+"}
      sign == IF signed /\ text[1] = "-" THEN -1 ELSE 1
      body == IF signed THEN SubSeq(text, 2, Len(text)) ELSE text
      dots == {i \in 1..Len(body) : body[i] = "."}
      wellFormed ==
        /\ \A i \in 1..Len(body) : body[i] \in Digits \cup {"."}
        /\ Cardinality(dots) <= 1
        /\ \E i \in 1..Len(body) : body[i] \in Digits
  IN IF ~wellFormed THEN [ok |-> FALSE, num |-> 0, den |-> 1]
     ELSE LET dot == IF dots = {} THEN Len(body) + 1 ELSE CHOOSE i \in dots : TRUE
              whole == SubSeq(body, 1, dot - 1)
              frac == SubSeq(body, dot + 1, Len(body))
          IN [ok |-> TRUE,
              num |-> sign * (DigitsValue(whole) * Pow10(Len(frac)) + DigitsValue(frac)),
              den |-> Pow10(Len(frac))]

\* float(v) for any value: a number converts, a string is parsed, anything
\* else is a TypeError.
ToFloat(v) ==
  CASE v.t = "num" -> [ok |-> TRUE, num |-> v.num, den |-> v.den]
    [] v.t = "str" -> ParseFloat(v.s)
    [] OTHER -> [ok |-> FALSE, num |-> 0, den |-> 1]

\* ----------------------------------------------------------------------
\* extract_fields
\* ----------------------------------------------------------------------
FieldNames ==
  { "customer_phone", "customer_zipcode", "order_value", "customer_firstname",
    "customer_lastname", "customer_email", "customer_country", "customer_street",
    "customer_city", "customer_province", "order_number", "order_status_url",
    "currency", "processed_at" }

NoFields == [f \in FieldNames |-> Absent]

\* [raised |-> TRUE] stands for an exception leaving extract_fields.
extract_fields(order_json) ==
  LET customer == PyOr(GetDefault(order_json, "customer", EmptyDict), EmptyDict)
      shipping == PyOr(GetDefault(order_json, "shipping_address", EmptyDict), EmptyDict)
      price == PyOr(GetDefault(order_json, "current_total_price", Num(0, 1)), Num(0, 1))
      value == ToFloat(price)
  IN IF customer.t # "dict" \/ shipping.t # "dict" THEN [raised |-> TRUE, fields |-> NoFields]
     ELSE LET default_address == Get(customer, "default_address")
          IN IF Truthy(default_address) /\ default_address.t # "dict"
             THEN [raised |-> TRUE, fields |-> NoFields]
             ELSE IF ~value.ok THEN [raised |-> TRUE, fields |-> NoFields]
             ELSE [raised |-> FALSE,
                   fields |->
                     [customer_phone |->
                        IF Truthy(default_address)
                        THEN Get(PyOr(default_address, EmptyDict), "phone")
                        ELSE Null,
                      customer_zipcode |-> Get(shipping, "zip"),
                      order_value |-> Num(value.num, value.den),
                      customer_firstname |-> PyOr(Get(customer, "first_name"), Str(<<>>)),
                      customer_lastname |-> PyOr(Get(customer, "last_name"), Str(<<>>)),
                      customer_email |-> PyOr(Get(customer, "email"), Str(<<>>)),
                      customer_country |-> PyOr(Get(shipping, "country"), Str(<<>>)),
                      customer_street |-> PyOr(Get(shipping, "address1"), Str(<<>>)),
                      customer_city |-> PyOr(Get(shipping, "city"), Str(<<>>)),
                      customer_province |-> PyOr(Get(shipping, "province"), Str(<<>>)),
                      order_number |-> PyOr(Get(order_json, "order_number"), Get(order_json, "id")),
                      order_status_url |-> Get(order_json, "order_status_url"),
                      currency |-> Get(order_json, "currency"),
                      processed_at |-> Get(order_json, "processed_at")]]

\* ----------------------------------------------------------------------
\* config.py
\* ----------------------------------------------------------------------
EnvKeys ==
  { "HARVEST_TOKEN", "HARVEST_ACCOUNT_ID", "TRELLO_KEY", "TRELLO_TOKEN", "TRELLO_LIST_ID",
    "ZOHO_ACCESS_TOKEN", "MAILCHIMP_API_KEY", "MAILCHIMP_LIST_ID",
    "MAILCHIMP_SERVER_PREFIX", "GMAIL_SMTP_SERVER", "GMAIL_SMTP_PORT", "GMAIL_SMTP_USER",
    "GMAIL_SMTP_PASS" }

DefaultSmtpServer == Str(<<"s", "m", "t", "p", ".", "g", "m", "a", "i", "l", ".", "c", "o", "m">>)
DefaultSmtpPort == Str(<<"5", "8", "7">>)

\* getenv(k, default): the variable's value unless it is unset (None).
getenv(env, k, default) == IF env[k].t # "null" THEN env[k] ELSE default

\* The module-level configuration values config.py computes at import.
LoadConfig(env) ==
  [k \in EnvKeys |->
     CASE k = "GMAIL_SMTP_SERVER" -> getenv(env, k, DefaultSmtpServer)
       [] k = "GMAIL_SMTP_PORT" -> getenv(env, k, DefaultSmtpPort)
       [] OTHER -> getenv(env, k, Null)]

\* COUPON_THRESHOLD = float(os.getenv("COUPON_THRESHOLD", "50")), unset.
COUPON_THRESHOLD == 50

\* ----------------------------------------------------------------------
\* AdapterResult
\* ----------------------------------------------------------------------
Simulated(message) == [simulated |-> TRUE, message |-> message]
Success(payload) == [simulated |-> FALSE, response |-> payload]
Failure(description) == [simulated |-> FALSE, error |-> description]

\* What the remote service does with one HTTP request: "ok" is a 2xx
\* response with a JSON body, "transport" an exception in requests.post,
\* "status" a non-2xx response, "body" a 2xx response whose body is no JSON.
HttpOutcomes == {"ok", "transport", "status", "body"}
ResponseBody == "json-body"

\* HttpTry with the except branch returning the simulated flag set.
HttpTry_flagged(remote) ==
  IF remote = "ok" THEN Success(ResponseBody)
  ELSE [simulated |-> TRUE, error |-> "Exception"]

\* The try/except around requests.post, raise_for_status and resp.json().
HttpTry(remote) ==
  CASE remote = "transport" -> Failure("ConnectionError")
    [] remote = "status" -> Failure("HTTPError")
    [] remote = "body" -> Failure("JSONDecodeError")
    [] remote = "ok" -> Success(ResponseBody)

\* What the mail server does with one SMTP session.
SmtpOutcomes == {"ok", "error"}

\* int(text): digits with an optional sign, else ValueError.
ParseInt(v) ==
  LET text == v.s
      signed == Len(text) > 0 /\ text[1] \in {"-", "+"}
      body == IF signed THEN SubSeq(text, 2, Len(text)) ELSE text
  IN Len(body) > 0 /\ \A i \in 1..Len(body) : body[i] \in Digits

\* ----------------------------------------------------------------------
\* Preconditions of the adapters
\* ----------------------------------------------------------------------
\* harvest_configured with `and` for `or`: one value is enough.
harvest_configured_either(cfg) ==
  ~(~Truthy(cfg["HARVEST_TOKEN"]) /\ ~Truthy(cfg["HARVEST_ACCOUNT_ID"]))

harvest_configured(cfg) ==
  ~(~Truthy(cfg["HARVEST_TOKEN"]) \/ ~Truthy(cfg["HARVEST_ACCOUNT_ID"]))

trello_configured(cfg) ==
  Truthy(cfg["TRELLO_KEY"]) /\ Truthy(cfg["TRELLO_TOKEN"]) /\ Truthy(cfg["TRELLO_LIST_ID"])

zoho_configured(cfg) == Truthy(cfg["ZOHO_ACCESS_TOKEN"])

mailchimp_configured(cfg) ==
  /\ Truthy(cfg["MAILCHIMP_API_KEY"])
  /\ Truthy(cfg["MAILCHIMP_LIST_ID"])
  /\ Truthy(cfg["MAILCHIMP_SERVER_PREFIX"])

smtp_configured(cfg) ==
  /\ Truthy(cfg["GMAIL_SMTP_SERVER"])
  /\ Truthy(cfg["GMAIL_SMTP_PORT"])
  /\ Truthy(cfg["GMAIL_SMTP_USER"])
  /\ Truthy(cfg["GMAIL_SMTP_PASS"])

\* mailchimp_has_email without the `if not email` test.
mailchimp_has_email_always(fields) == TRUE

\* The tagging adapter's second precondition: `if not email`.
mailchimp_has_email(fields) == Truthy(fields.customer_email)

\* email.lower() exists only on a string; anything else is an AttributeError
\* raised outside the adapter's try block.
mailchimp_hash_raises(fields) == fields.customer_email.t # "str"

\* ----------------------------------------------------------------------
\* process_order
\* ----------------------------------------------------------------------
Adapters == {"harvest", "trello", "zoho", "email", "mailchimp"}

ResultKeys == {"fields", "harvest", "trello", "zoho", "coupon_email", "thankyou_email", "mailchimp"}

\* A key the result dict does not hold.
NoKey == [missing |-> TRUE]

\* HighValue with >= for >.
HighValue_inclusive(fields) ==
  LET order_value == PyOr(fields.order_value, Num(0, 1))
  IN order_value.num >= COUPON_THRESHOLD * order_value.den

\* order_value > COUPON_THRESHOLD, on the extracted fields.
HighValue(fields) ==
  LET order_value == PyOr(fields.order_value, Num(0, 1))
  IN order_value.num > COUPON_THRESHOLD * order_value.den

\* The result key the email result is stored under.
EmailKey(fields) == IF HighValue(fields) THEN "coupon_email" ELSE "thankyou_email"

\* NextStep with the CRM upsert placed before the task card.
NextStep_swapped(step, fields) ==
  CASE step = "extract" -> "harvest"
    [] step = "harvest" -> "zoho"
    [] step = "zoho" -> "trello"
    [] step = "trello" -> "email"
    [] step = "email" -> IF HighValue(fields) THEN "mailchimp" ELSE "finish"
    [] step = "mailchimp" -> "finish"

\* The statement process_order runs after the call of `step` has returned.
NextStep(step, fields) ==
  CASE step = "extract" -> "harvest"
    [] step = "harvest" -> "trello"
    [] step = "trello" -> "zoho"
    [] step = "zoho" -> "email"
    [] step = "email" -> IF HighValue(fields) THEN "mailchimp" ELSE "finish"
    [] step = "mailchimp" -> "finish"

\* The program point of an adapter blocked on its outbound call.
Waiting(adapter) ==
  CASE adapter = "harvest" -> "harvest_wait"
    [] adapter = "trello" -> "trello_wait"
    [] adapter = "zoho" -> "zoho_wait"
    [] adapter = "email" -> "email_wait"
    [] adapter = "mailchimp" -> "mailchimp_wait"

\* An outbound call leaves the process / its answer has come back.
Send(calls, adapter) == calls \cup {adapter}
Receive(calls, adapter) == calls \ {adapter}

VARIABLES
  config,    \* the module-level values of config.py
  runs,      \* orders received so far
  pc,        \* the statement of process_order about to run
  order,     \* the order being processed
  result,    \* process_order's result dict
  invoked,   \* per adapter, its invocations in this run
  outbound,  \* per adapter, its outbound calls in this run
  inflight,  \* adapters with an outbound call in flight
  trace      \* the steps of this run, in the order they started

vars == <<config, runs, pc, order, result, invoked, outbound, inflight, trace>>

fields == result["fields"]

\* ----------------------------------------------------------------------
\* Inputs: environments and orders
\* ----------------------------------------------------------------------
Unset == Null
Token == Str(<<"k">>)

AllSet == [k \in EnvKeys |-> IF k = "GMAIL_SMTP_PORT" THEN Str(<<"5", "8", "7">>) ELSE Token]
NoneSet == [k \in EnvKeys |-> Unset]

TrioKeys ==
  { "HARVEST_TOKEN", "HARVEST_ACCOUNT_ID", "TRELLO_KEY", "TRELLO_TOKEN", "TRELLO_LIST_ID",
    "ZOHO_ACCESS_TOKEN" }
NotifyKeys == EnvKeys \ TrioKeys

\* Only the invoice, task-card and CRM services set / only mail and tagging.
TrioSet == [k \in EnvKeys |-> IF k \in TrioKeys THEN AllSet[k] ELSE Unset]
NotifySet == [k \in EnvKeys |-> IF k \in NotifyKeys THEN AllSet[k] ELSE Unset]

\* The environments: everything set, nothing set, one group set, and each
\* variable of a group unset or empty with the rest of the group set; a
\* port that is no number.
Envs ==
  {AllSet, NoneSet, TrioSet, NotifySet}
    \cup {[TrioSet EXCEPT ![k] = v] : k \in TrioKeys, v \in {Unset, Str(<<>>)}}
    \cup {[NotifySet EXCEPT ![k] = v] : k \in NotifyKeys, v \in {Unset, Str(<<>>)}}
    \cup {[b EXCEPT !["GMAIL_SMTP_PORT"] = Str(<<"s", "m", "t", "p">>)] : b \in {AllSet, NotifySet}}

Ana == Str(<<"A", "n", "a">>)
Mail == Str(<<"a", "@", "x", ".", "c", "o", "m">>)
Text == Str(<<"t">>)

Prices ==
  { Absent, Null, Str(<<>>), Num(0, 1), Num(50, 1), Num(75, 1), Num(4999, 100),
    Str(<<"7", "5", ".", "0", "0">>), Str(<<"5", "0", ".", "0", "0">>),
    Str(<<"5", "0">>), Str(<<"5", "0", ".">>), Str(<<"5", "0", ".", "0", "1">>),
    Str(<<"4", "9", ".", "9", "9">>), Str(<<"-", "7", "5">>), Str(<<".", "5">>),
    Str(<<"a", "b", "c">>), Str(<<"5", ".", "0", ".", "0">>), Str(<<".">>),
    Dict([currency |-> Text]) }

Customers ==
  { Absent, Null, EmptyDict,
    Dict([first_name |-> Ana, email |-> Mail]),
    Dict([first_name |-> Ana, email |-> Str(<<>>)]),
    Dict([first_name |-> Ana, email |-> Num(123, 1)]),
    Dict([first_name |-> Ana, last_name |-> Text, email |-> Mail,
          default_address |-> Dict([phone |-> Text])]),
    Dict([email |-> Mail, default_address |-> EmptyDict]),
    Dict([email |-> Mail, default_address |-> Dict([zip |-> Text])]),
    Dict([email |-> Mail, default_address |-> Text]),
    Text }

Shippings ==
  { Absent, Null, EmptyDict, Dict([zip |-> Text]),
    Dict([zip |-> Text, country |-> Text, address1 |-> Text, city |-> Text,
          province |-> Text]),
    Text }

Metas ==
  { EmptyDict, Dict([id |-> Num(7, 1)]),
    Dict([order_number |-> Num(1001, 1), id |-> Num(7, 1), order_status_url |-> Text,
          currency |-> Text, processed_at |-> Text]) }

MkOrder(price, customer, shipping, meta) ==
  [t |-> "dict",
   d |-> [k \in Keys |->
            CASE k = "current_total_price" -> price
              [] k = "customer" -> customer
              [] k = "shipping_address" -> shipping
              [] OTHER -> meta.d[k]]]

BaseCustomer == Dict([first_name |-> Ana, email |-> Mail])
BaseShipping == Dict([zip |-> Text])
HighPrice == Str(<<"7", "5", ".", "0", "0">>)
EqualPrice == Str(<<"5", "0", ".", "0", "0">>)

\* The orders: each field varied around the base order.
Orders ==
  {MkOrder(p, BaseCustomer, BaseShipping, EmptyDict) : p \in Prices}
    \cup {MkOrder(p, c, BaseShipping, EmptyDict) : p \in {HighPrice, EqualPrice}, c \in Customers}
    \cup {MkOrder(EqualPrice, Absent, s, m) : s \in Shippings, m \in Metas}

\* ----------------------------------------------------------------------
\* Actions
\* ----------------------------------------------------------------------
EmptyResult == [k \in ResultKeys |-> NoKey]
NoCalls == [a \in Adapters |-> 0]

Init ==
  /\ config \in {LoadConfig(env) : env \in Envs}
  /\ runs = 0
  /\ pc = "idle"
  /\ order = EmptyDict
  /\ result = EmptyResult
  /\ invoked = NoCalls
  /\ outbound = NoCalls
  /\ inflight = {}
  /\ trace = <<>>

\* An adapter that returns without an outbound call.
ReturnAtOnce(adapter, key, res) ==
  /\ invoked' = [invoked EXCEPT ![adapter] = @ + 1]
  /\ trace' = Append(trace, adapter)
  /\ result' = [result EXCEPT ![key] = res]
  /\ pc' = NextStep(adapter, fields)
  /\ UNCHANGED <<config, runs, order, outbound, inflight>>

\* An adapter that issues its outbound call and blocks on it.
IssueCall(adapter) ==
  /\ invoked' = [invoked EXCEPT ![adapter] = @ + 1]
  /\ trace' = Append(trace, adapter)
  /\ outbound' = [outbound EXCEPT ![adapter] = @ + 1]
  /\ inflight' = Send(inflight, adapter)
  /\ pc' = Waiting(adapter)
  /\ UNCHANGED <<config, runs, order, result>>

\* The outbound call comes back and the adapter returns `res`.
CallReturns(adapter, key, res) ==
  /\ inflight' = Receive(inflight, adapter)
  /\ result' = [result EXCEPT ![key] = res]
  /\ pc' = NextStep(adapter, fields)
  /\ UNCHANGED <<config, runs, order, invoked, outbound, trace>>

\* cli_main / webhook_order_created hand a parsed order to process_order,
\* which starts an empty result.
ReceiveOrder(o) ==
  /\ pc \in {"idle", "returned", "raised"}
  /\ runs < MaxRuns
  /\ runs' = runs + 1
  /\ order' = o
  /\ result' = EmptyResult
  /\ invoked' = NoCalls
  /\ outbound' = NoCalls
  /\ trace' = <<>>
  /\ pc' = "extract"
  /\ UNCHANGED <<config, inflight>>

\* fields = extract_fields(order_json); result["fields"] = fields
Extract ==
  /\ pc = "extract"
  /\ LET r == extract_fields(order)
     IN IF r.raised
        THEN pc' = "raised" /\ UNCHANGED result
        ELSE /\ result' = [result EXCEPT !["fields"] = r.fields]
             /\ pc' = NextStep("extract", r.fields)
  /\ trace' = Append(trace, "extract")
  /\ UNCHANGED <<config, runs, order, invoked, outbound, inflight>>

create_harvest_invoice ==
  /\ pc = "harvest"
  /\ IF ~harvest_configured(config)
     THEN ReturnAtOnce("harvest", "harvest", Simulated("Harvest not configured. Invoice not created."))
     ELSE IssueCall("harvest")

harvest_response(remote) ==
  /\ pc = Waiting("harvest")
  /\ CallReturns("harvest", "harvest", HttpTry(remote))

create_trello_card ==
  /\ pc = "trello"
  /\ IF ~trello_configured(config)
     THEN ReturnAtOnce("trello", "trello", Simulated("Trello not configured. Card not created."))
     ELSE IssueCall("trello")

trello_response(remote) ==
  /\ pc = Waiting("trello")
  /\ CallReturns("trello", "trello", HttpTry(remote))

upsert_zoho_contact ==
  /\ pc = "zoho"
  /\ IF ~zoho_configured(config)
     THEN ReturnAtOnce("zoho", "zoho", Simulated("Zoho not configured. Contact not upserted."))
     ELSE IssueCall("zoho")

zoho_response(remote) ==
  /\ pc = Waiting("zoho")
  /\ CallReturns("zoho", "zoho", HttpTry(remote))

\* The try/except of send_email_smtp once the session has been opened; a
\* recipient that is no string makes msg.as_string() raise inside it.
SmtpTry(to_email, remote) ==
  IF remote = "ok" /\ to_email.t = "str"
  THEN [simulated |-> FALSE, message |-> "Email sent via SMTP"]
  ELSE Failure("SMTPException")

send_email_smtp ==
  /\ pc = "email"
  /\ IF ~smtp_configured(config)
     THEN ReturnAtOnce("email", EmailKey(fields), Simulated("SMTP not configured. Email not sent."))
     ELSE IF ~ParseInt(config["GMAIL_SMTP_PORT"])
     THEN ReturnAtOnce("email", EmailKey(fields), Failure("ValueError"))
     ELSE IssueCall("email")

smtp_response(remote) ==
  /\ pc = Waiting("email")
  /\ CallReturns("email", EmailKey(fields), SmtpTry(PyOr(fields.customer_email, Str(<<>>)), remote))

mailchimp_add_tag ==
  /\ pc = "mailchimp"
  /\ IF ~mailchimp_configured(config)
     THEN ReturnAtOnce("mailchimp", "mailchimp", Simulated("Mailchimp not configured. Tag not added."))
     ELSE IF ~mailchimp_has_email(fields)
     THEN ReturnAtOnce("mailchimp", "mailchimp", Simulated("No email provided."))
     ELSE IF mailchimp_hash_raises(fields)
     THEN /\ invoked' = [invoked EXCEPT !["mailchimp"] = @ + 1]
          /\ trace' = Append(trace, "mailchimp")
          /\ pc' = "raised"
          /\ UNCHANGED <<config, runs, order, result, outbound, inflight>>
     ELSE IssueCall("mailchimp")

mailchimp_response(remote) ==
  /\ pc = Waiting("mailchimp")
  /\ CallReturns("mailchimp", "mailchimp", HttpTry(remote))

\* result["finished_at"] = ...; return result
Finish ==
  /\ pc = "finish"
  /\ pc' = "returned"
  /\ UNCHANGED <<config, runs, order, result, invoked, outbound, inflight, trace>>

Next ==
  \/ \E o \in Orders : ReceiveOrder(o)
  \/ Extract
  \/ create_harvest_invoice
  \/ \E remote \in HttpOutcomes : harvest_response(remote)
  \/ create_trello_card
  \/ \E remote \in HttpOutcomes : trello_response(remote)
  \/ upsert_zoho_contact
  \/ \E remote \in HttpOutcomes : zoho_response(remote)
  \/ send_email_smtp
  \/ \E remote \in SmtpOutcomes : smtp_response(remote)
  \/ mailchimp_add_tag
  \/ \E remote \in HttpOutcomes : mailchimp_response(remote)
  \/ Finish

Spec == Init /\ [][Next]_vars

\* ----------------------------------------------------------------------
\* Vocabulary of the properties
\* ----------------------------------------------------------------------
Has(k) == result[k] # NoKey

Terminated == pc \in {"returned", "raised"}

\* The result key an adapter's result is stored under.
KeysOf(adapter) ==
  IF adapter = "email" THEN {"coupon_email", "thankyou_email"} ELSE {adapter}

Required(adapter) ==
  CASE adapter = "harvest" -> {"HARVEST_TOKEN", "HARVEST_ACCOUNT_ID"}
    [] adapter = "trello" -> {"TRELLO_KEY", "TRELLO_TOKEN", "TRELLO_LIST_ID"}
    [] adapter = "zoho" -> {"ZOHO_ACCESS_TOKEN"}
    [] adapter = "mailchimp" ->
         {"MAILCHIMP_API_KEY", "MAILCHIMP_LIST_ID", "MAILCHIMP_SERVER_PREFIX"}
    [] adapter = "email" ->
         {"GMAIL_SMTP_SERVER", "GMAIL_SMTP_PORT", "GMAIL_SMTP_USER", "GMAIL_SMTP_PASS"}

\* A required configuration value is None or the empty string.
SomeValueAbsent(adapter) ==
  \E k \in Required(adapter) : config[k].t = "null" \/ config[k] = Str(<<>>)

IsSimulatedForm(r) == DOMAIN r = {"simulated", "message"} /\ r.simulated
IsSuccessForm(r) == DOMAIN r = {"simulated", "response"} /\ ~r.simulated
IsFailureForm(r) == DOMAIN r = {"simulated", "error"} /\ ~r.simulated
IsSentForm(r) == DOMAIN r = {"simulated", "message"} /\ ~r.simulated

\* The step whose exception ended the run.
RaisedIn(step) == pc = "raised" /\ trace[Len(trace)] = step

ExceedsThreshold == Has("fields") /\ fields.order_value.num > COUPON_THRESHOLD * fields.order_value.den
EqualsThreshold == Has("fields") /\ fields.order_value.num = COUPON_THRESHOLD * fields.order_value.den

\* The selector has acted: the email send of this run has returned.
Selected == Has("coupon_email") \/ Has("thankyou_email")

StepOrder == <<"extract", "harvest", "trello", "zoho", "email", "mailchimp">>

\* ----------------------------------------------------------------------
\* C1: whatever the adapters' outcomes, a run of process_order invokes the
\* invoice, task-card and CRM adapters and the notification step, and
\* returns a result holding "harvest", "trello", "zoho" and an email result.
\* ----------------------------------------------------------------------
C1_EveryRunCallsEveryAdapter ==
  Terminated =>
    /\ pc = "returned"
    /\ \A a \in {"harvest", "trello", "zoho", "email"} : invoked[a] = 1
    /\ Has("harvest") /\ Has("trello") /\ Has("zoho")
    /\ Has("coupon_email") \/ Has("thankyou_email")

\* ----------------------------------------------------------------------
\* C2: the high-value branch (coupon email and a tagging call) is taken
\* exactly when order_value > COUPON_THRESHOLD; at order_value equal to the
\* threshold the thank-you branch is taken and no tagging call is made.
\* ----------------------------------------------------------------------
C2_StrictThreshold ==
  /\ Has("coupon_email") => ExceedsThreshold
  /\ Has("thankyou_email") => ~ExceedsThreshold /\ invoked["mailchimp"] = 0 /\ ~Has("mailchimp")
  /\ invoked["mailchimp"] > 0 => ExceedsThreshold /\ Has("coupon_email")
  /\ (Selected /\ ExceedsThreshold /\ Terminated) => invoked["mailchimp"] = 1
  /\ pc \in {"mailchimp", "mailchimp_wait"} => ExceedsThreshold
  /\ (pc = "finish" /\ ~Has("mailchimp")) => ~ExceedsThreshold

C2_Witness ==
  /\ pc = "returned"
  /\ EqualsThreshold
  /\ order.d["current_total_price"] = Str(<<"5", "0", ".", "0", "0">>)
  /\ Has("thankyou_email") /\ ~Has("coupon_email")
  /\ invoked["mailchimp"] = 0

\* ----------------------------------------------------------------------
\* C3: every run of process_order calls send_email_smtp exactly once, its
\* result holds exactly one of "coupon_email" and "thankyou_email", and it
\* holds "mailchimp" exactly when it holds "coupon_email".
\* ----------------------------------------------------------------------
C3_OneEmailPerRun ==
  Terminated =>
    /\ invoked["email"] = 1
    /\ Has("coupon_email") # Has("thankyou_email")
    /\ Has("mailchimp") <=> Has("coupon_email")

\* ----------------------------------------------------------------------
\* C4: no adapter raises past its boundary: a run never ends with an
\* exception that left an adapter, and whatever the remote service did the
\* adapter's result is stored.
\* ----------------------------------------------------------------------
C4_AdaptersNeverRaise ==
  /\ \A a \in Adapters : ~RaisedIn(a)
  /\ \A a \in Adapters :
       (invoked[a] = 1 /\ pc # Waiting(a)) => \E k \in KeysOf(a) : Has(k)

\* ----------------------------------------------------------------------
\* C5: for an order without "customer" or "shipping_address" extract_fields
\* returns, and no field of the result is null.
\* ----------------------------------------------------------------------
C5_MissingDefaultsNeverNull ==
  (/\ runs > 0
   /\ pc # "extract"
   /\ order.d["customer"].t = "absent" \/ order.d["shipping_address"].t = "absent") =>
    /\ Has("fields")
    /\ \A f \in FieldNames : fields[f].t # "null"

\* The price is absent or float() rejects it.
PriceUnparsable ==
  LET price == order.d["current_total_price"]
  IN \/ price.t \in {"absent", "null", "dict"}
     \/ price.t = "str" /\ ~ParseFloat(price.s).ok

\* ----------------------------------------------------------------------
\* C6: when current_total_price is absent or cannot be parsed as a number,
\* extract_fields does not raise and order_value is 0.
\* ----------------------------------------------------------------------
C6_UnparsableValueIsZero ==
  (runs > 0 /\ pc # "extract" /\ PriceUnparsable) =>
    /\ ~RaisedIn("extract")
    /\ Has("fields")
    /\ fields.order_value.num = 0

\* ----------------------------------------------------------------------
\* C7: an adapter one of whose required configuration values is absent
\* returns the simulated form and makes no outbound call.
\* ----------------------------------------------------------------------
C7_UnconfiguredIsSimulated ==
  \A a \in Adapters :
    SomeValueAbsent(a) =>
      /\ outbound[a] = 0
      /\ a \notin inflight
      /\ invoked[a] = 1 => \E k \in KeysOf(a) : Has(k) /\ IsSimulatedForm(result[k])

C7_Witness ==
  /\ pc = "returned"
  /\ config["HARVEST_TOKEN"] = Token /\ config["HARVEST_ACCOUNT_ID"] = Null
  /\ invoked["harvest"] = 1 /\ IsSimulatedForm(result["harvest"])
  /\ outbound["trello"] = 1
  /\ config["GMAIL_SMTP_PASS"] = Null /\ config["GMAIL_SMTP_SERVER"] = DefaultSmtpServer
  /\ invoked["email"] = 1

\* The configured SMTP port is a string of digits.
PortIsInteger ==
  LET port == config["GMAIL_SMTP_PORT"].s
  IN Len(port) > 0 /\ \A i \in 1..Len(port) : port[i] \in Digits

EmailIsNonEmptyString ==
  Has("fields") /\ fields.customer_email.t = "str" /\ fields.customer_email # Str(<<>>)

\* ----------------------------------------------------------------------
\* C8: an adapter whose required configuration values are all present makes
\* exactly one outbound call per invocation, whatever the fields.
\* ----------------------------------------------------------------------
C8_ConfiguredCallsExactlyOnce ==
  \A a \in Adapters :
    (~SomeValueAbsent(a) /\ invoked[a] = 1) => outbound[a] = 1

\* C8, amended: no invocation makes more than one outbound call; a
\* configured adapter makes exactly one, except that send_email_smtp makes
\* none when the configured port is no integer and mailchimp_add_tag makes
\* none when the customer email is not a non-empty string.
C8_AtMostOneCall ==
  /\ \A a \in Adapters : outbound[a] <= invoked[a] /\ invoked[a] <= 1
  /\ \A a \in {"harvest", "trello", "zoho"} :
       (~SomeValueAbsent(a) /\ invoked[a] = 1) => outbound[a] = 1
  /\ (~SomeValueAbsent("email") /\ invoked["email"] = 1) =>
       outbound["email"] = IF PortIsInteger THEN 1 ELSE 0
  /\ (~SomeValueAbsent("mailchimp") /\ invoked["mailchimp"] = 1) =>
       outbound["mailchimp"] = IF EmailIsNonEmptyString THEN 1 ELSE 0
  /\ (~SomeValueAbsent("mailchimp") /\ invoked["mailchimp"] = 1 /\ Has("fields")
        /\ fields.customer_email = Str(<<>>)) =>
       result["mailchimp"] = Simulated("No email provided.")

C8_Witness ==
  /\ pc = "returned"
  /\ ~SomeValueAbsent("mailchimp")
  /\ invoked["mailchimp"] = 1 /\ outbound["mailchimp"] = 0
  /\ fields.customer_email = Str(<<>>)
  /\ outbound["harvest"] = 1 /\ outbound["email"] = 1

\* The result keys that hold an AdapterResult.
AdapterKeys == ResultKeys \ {"fields"}

\* ----------------------------------------------------------------------
\* C9: every AdapterResult is of exactly one of three forms: simulated
\* (flag true, a reason), success (flag false, the response payload, no
\* error) or failure (flag false, an error description, no payload).
\* ----------------------------------------------------------------------
C9_ThreeForms ==
  \A k \in AdapterKeys :
    Has(k) =>
      \/ IsSimulatedForm(result[k])
      \/ IsSuccessForm(result[k])
      \/ IsFailureForm(result[k])

\* C9, amended: as C9, except that the success form of send_email_smtp
\* carries a fixed confirmation message in place of a response payload.
C9_ThreeFormsEmailMessage ==
  \A k \in AdapterKeys :
    Has(k) =>
      /\ "simulated" \in DOMAIN result[k]
      /\ \/ IsSimulatedForm(result[k])
         \/ IsFailureForm(result[k])
         \/ k \in KeysOf("email") /\ result[k] = [simulated |-> FALSE, message |-> "Email sent via SMTP"]
         \/ k \notin KeysOf("email") /\ IsSuccessForm(result[k]) /\ result[k].response = ResponseBody

C9_Witness ==
  /\ pc = "returned"
  /\ IsSentForm(result["coupon_email"])
  /\ IsSuccessForm(result["harvest"])
  /\ IsFailureForm(result["trello"])
  /\ IsFailureForm(result["zoho"])
  /\ IsSimulatedForm(result["mailchimp"])

\* ----------------------------------------------------------------------
\* C10: the steps of a run start in the order extract, invoice, task card,
\* CRM, email, tagging (tagging in the high-value branch only), each after
\* the previous one has returned: at most one outbound call is in flight.
\* ----------------------------------------------------------------------
C10_Sequential ==
  /\ Len(trace) <= Len(StepOrder)
  /\ \A i \in 1..Len(trace) : trace[i] = StepOrder[i]
  /\ Cardinality(inflight) <= 1
  /\ \A a \in inflight : pc = Waiting(a) /\ trace[Len(trace)] = a
  /\ pc \in {"idle", "extract", "harvest", "trello", "zoho", "email", "mailchimp", "finish",
             "returned", "raised"} => inflight = {}
  /\ Len(trace) = Len(StepOrder) => ExceedsThreshold
  /\ pc = "returned" => Len(trace) = IF ExceedsThreshold THEN 6 ELSE 5

C10_Witness ==
  /\ pc = "returned"
  /\ trace = StepOrder
  /\ \A a \in Adapters : outbound[a] = 1

====
